---------------------------- MODULE Spec2Model ----------------------------
(***************************************************************************)
(* The picture processing unit of src/gpu.rs (struct Gpu): the register    *)
(* bank (rb/wb), video memory (wb_vram), the sprite table (oam), the tile   *)
(* cache (update_tileset), the mode state machine (step/switch) and the     *)
(* scanline renderer (render_line, render_background, render_sprites).      *)
(*                                                                          *)
(* The device is one record, gpu, whose fields carry the names of the       *)
(* fields of struct Gpu.  The zero-initialised arrays (oam, vrambank,       *)
(* tiles.data, image_data) are kept as the finite map of their non-zero     *)
(* entries, which Get reads with the default 0; the flag array              *)
(* tiles.to_update is kept as the value of most of its entries (dflt) and   *)
(* the set of the indices that hold the other value (set).                  *)
(***************************************************************************)
EXTENDS Integers, Sequences, FiniteSets, TLC

VARIABLES
    gpu,        \* the fields of struct Gpu
    if_,        \* the caller's interrupt-flag byte handed to step by reference
    fault,      \* "none", or the panic that ended the program
    op,         \* the last call made on the device (or the mark of SpecCycle)
    raised,     \* the interrupt bits the last call OR-ed into if_
    render_at,  \* the values of LY at which the last call invoked render_line, in order
    frame,      \* the render_line calls since the step that wrapped LY to 0
    cyc,        \* a marked start state and the cycles stepped since
    probe       \* the inputs and results that a specification sets aside

vars == <<gpu, if_, fault, op, raised, render_at, frame, cyc, probe>>

---------------------------------------------------------------------------
(* Program constants                                                       *)

OAM_SIZE == 159
NUM_TILES == 192
HEIGHT == 144
WIDTH == 160
LINE_CYCLES == 456
NUM_LINES == 154
OAM_CYCLES == 80
VRAM_CYCLES == 252
LCD_ON_CLOCK == 4
BIOS_SKIP_CLOCK == 43980

Arr(s) == [i \in 0..(Len(s) - 1) |-> s[i + 1]]

PALETTE_GREEN ==
    Arr(<< Arr(<<225, 247, 207, 255>>),
           Arr(<<136, 193, 107, 255>>),
           Arr(<< 49, 106,  74, 255>>),
           Arr(<<  7,  24,  31, 255>>) >>)

PALETTE == PALETTE_GREEN

Modes == {"HBlank", "VBlank", "RdOam", "RdVram"}

ModeNum(m) ==
    CASE m = "HBlank" -> 0
      [] m = "VBlank" -> 1
      [] m = "RdOam"  -> 2
      [] m = "RdVram" -> 3

\* cpu::Interrupt, the two bits step can set; if_ is the set of bits that are 1
Interrupts == {"Vblank", "LCDStat", "Timer"}

---------------------------------------------------------------------------
(* Bytes and sparse arrays                                                 *)

Bit(v, n) == (v \div (2 ^ n)) % 2

Min2(a, b) == IF a < b THEN a ELSE b

Get(m, k) == IF k \in DOMAIN m THEN m[k] ELSE 0

Sparse(m) == [k \in {x \in DOMAIN m : m[x] # 0} |-> m[k]]

Put(m, k, v) == Sparse((k :> v) @@ m)

Empty == [k \in {} |-> 0]

ZeroRow == [k \in 0..7 |-> 0]

ZeroTile == [j \in 0..7 |-> ZeroRow]

\* tiles.data[t]
TileData(g, t) == IF t \in DOMAIN g.tiles_data THEN g.tiles_data[t] ELSE ZeroTile

\* tiles.to_update[t]
ToUpdate(g, t) == (t \in g.to_update.set) # g.to_update.dflt

\* tiles.to_update with the flag of every tile of d set
MarkDirty(to_update, d) ==
    IF to_update.dflt
    THEN [to_update EXCEPT !.set = @ \ d]
    ELSE [to_update EXCEPT !.set = @ \cup d]

AllDirty == [dflt |-> TRUE, set |-> {}]

AllClean == [dflt |-> FALSE, set |-> {}]

---------------------------------------------------------------------------
(* update_pal                                                              *)

update_pal_reversed(val) ==
    [i \in 0..3 |-> PALETTE[(val \div (2 ^ (2 * (3 - i)))) % 4]]

update_pal(val) ==
    [i \in 0..3 |-> PALETTE[(val \div (2 ^ (2 * i))) % 4]]

---------------------------------------------------------------------------
(* Gpu::new                                                                *)

NewGpu ==
    [ oam          |-> Empty,
      image_data   |-> Empty,
      is_cgb       |-> FALSE,
      mode         |-> "RdOam",
      clock        |-> BIOS_SKIP_CLOCK % LINE_CYCLES,
      vrambank     |-> Empty,
      vrambank_sel |-> 0,
      lcdon |-> FALSE, winmap |-> FALSE, winon |-> FALSE, tiledata |-> FALSE,
      bgmap |-> FALSE, objsize |-> FALSE, objon |-> FALSE, bgon |-> FALSE,
      lycly |-> FALSE, mode2int |-> FALSE, mode1int |-> FALSE,
      mode0int |-> FALSE,
      scy |-> 0, scx |-> 0, ly |-> 0, lyc |-> 0,
      bgp |-> 0, obp0 |-> 0, obp1 |-> 0, wy |-> 0, wx |-> 0,
      pal          |-> [bg   |-> update_pal(228),
                        obp0 |-> update_pal(228),
                        obp1 |-> update_pal(228)],
      tiles_data   |-> [t \in {} |-> ZeroTile],
      need_update  |-> TRUE,
      to_update    |-> AllDirty ]

---------------------------------------------------------------------------
(* Gpu::wb_vram                                                            *)

DirtyTilesUpper(g, addr) ==
    LET t2 == (addr - \h8800) \div 16
    IN  IF ~g.tiledata /\ addr >= \h8800 /\ t2 < NUM_TILES THEN {t2} ELSE {}

\* the tile indices wb_vram marks dirty for a write to addr
DirtyTiles(g, addr) ==
    LET t1 == (addr - \h8000) \div 16
        t2 == (addr - \h8800) \div 16
    IN  (IF t1 < NUM_TILES THEN {t1} ELSE {})
        \cup (IF ~g.tiledata /\ addr >= \h8800 /\ t2 < NUM_TILES
              THEN {t2} ELSE {})

wb_vram(g, addr, data) ==
    LET d == DirtyTiles(g, addr)
    IN  [g EXCEPT !.to_update   = MarkDirty(@, d),
                  !.need_update = @ \/ (d # {}),
                  !.vrambank    = Put(@, addr - \h8000, data)]

---------------------------------------------------------------------------
(* Gpu::rb and Gpu::wb                                                     *)

rb_dma(g, addr) == IF addr % 256 = \h46 THEN 0 ELSE 255

rb(g, addr) ==
    LET port == addr % 256
        b(x) == IF x THEN 1 ELSE 0
    IN  CASE port = \h40 ->
               128 * b(g.lcdon) + 64 * b(g.winmap) + 32 * b(g.winon)
               + 16 * b(g.tiledata) + 8 * b(g.bgmap) + 4 * b(g.objsize)
               + 2 * b(g.objon) + b(g.bgon)
          [] port = \h41 ->
               64 * b(g.lycly) + 32 * b(g.mode2int) + 16 * b(g.mode1int)
               + 8 * b(g.mode0int) + 4 * b(b(g.lycly) = g.ly)
               + ModeNum(g.mode)
          [] port = \h42 -> g.scy
          [] port = \h43 -> g.scx
          [] port = \h44 -> g.ly
          [] port = \h45 -> g.lyc
          [] port = \h47 -> g.bgp
          [] port = \h48 -> g.obp0
          [] port = \h49 -> g.obp1
          [] port = \h4a -> g.wy
          [] port = \h4b -> g.wx
          [] port = \h4f -> g.vrambank_sel
          [] OTHER -> 255

LcdTurnsOnAgain(before, val) == Bit(val, 7) = 1

\* "if !before && self.lcdon": the write to port 0x40 restarts the line counter
LcdTurnsOn(before, val) == ~before /\ Bit(val, 7) = 1

wb_lcdc(g, val) ==
    LET g1 == [g EXCEPT !.lcdon    = Bit(val, 7) # 0,
                        !.winmap   = Bit(val, 6) # 0,
                        !.winon    = Bit(val, 5) # 0,
                        !.tiledata = Bit(val, 4) # 0,
                        !.bgmap    = Bit(val, 3) # 0,
                        !.objsize  = Bit(val, 2) # 0,
                        !.objon    = Bit(val, 1) # 0,
                        !.bgon     = Bit(val, 0) # 0]
    IN  IF LcdTurnsOn(g.lcdon, val)
        THEN [g1 EXCEPT !.clock = LCD_ON_CLOCK, !.ly = 0]
        ELSE g1

wb_stat(g, val) ==
    [g EXCEPT !.lycly    = Bit(val, 6) # 0,
              !.mode2int = Bit(val, 5) # 0,
              !.mode1int = Bit(val, 4) # 0,
              !.mode0int = Bit(val, 3) # 0]

wb(g, addr, val) ==
    LET port == addr % 256
    IN  CASE port = \h40 -> wb_lcdc(g, val)
          [] port = \h41 -> wb_stat(g, val)
          [] port = \h42 -> [g EXCEPT !.scy = val]
          [] port = \h43 -> [g EXCEPT !.scx = val]
          [] port = \h45 -> [g EXCEPT !.lyc = val]
          [] port = \h47 -> [g EXCEPT !.bgp = val, !.pal.bg = update_pal(val)]
          [] port = \h48 -> [g EXCEPT !.obp0 = val, !.pal.obp0 = update_pal(val)]
          [] port = \h49 -> [g EXCEPT !.obp1 = val, !.pal.obp1 = update_pal(val)]
          [] port = \h4a -> [g EXCEPT !.wy = val]
          [] port = \h4b -> [g EXCEPT !.wx = val]
          [] port = \h4f -> IF g.is_cgb
                            THEN [g EXCEPT !.vrambank_sel = val % 2]
                            ELSE g
          [] OTHER -> g

---------------------------------------------------------------------------
(* Gpu::update_tileset                                                     *)

RECURSIVE DecodeLoopForward(_, _, _, _)
DecodeLoopForward(k, lsb, msb, row) ==
    IF k < 0 THEN row
    ELSE DecodeLoopForward(k - 1, lsb \div 2, msb \div 2,
                           [row EXCEPT ![7 - k] = 2 * (msb % 2) + (lsb % 2)])

\* the inner loop "for k in (0..8).rev()": one pixel per shift of lsb and msb
RECURSIVE DecodeLoop(_, _, _, _)
DecodeLoop(k, lsb, msb, row) ==
    IF k < 0 THEN row
    ELSE DecodeLoop(k - 1, lsb \div 2, msb \div 2,
                    [row EXCEPT ![k] = 2 * (msb % 2) + (lsb % 2)])

\* the loop, run once for every pair of bytes
DecodeTable ==
    [lsb \in 0..255 |-> [msb \in 0..255 |-> DecodeLoop(7, lsb, msb, ZeroRow)]]

DecodeRow(lsb, msb) == DecodeTable[lsb][msb]

\* the address of the least-significant byte of row j of tile i
TileRowAddr(i, j) == ((i % NUM_TILES) * 16) + j * 2

DecodeTile(g, i) ==
    [j \in 0..7 |-> DecodeRow(Get(g.vrambank, TileRowAddr(i, j)),
                              Get(g.vrambank, TileRowAddr(i, j) + 1))]

update_tileset(g) ==
    LET new(t) == IF ToUpdate(g, t) THEN DecodeTile(g, t) ELSE TileData(g, t)
        keep   == {t \in 0..(NUM_TILES - 1) : new(t) # ZeroTile}
    IN  [g EXCEPT !.tiles_data = [t \in keep |-> new(t)],
                  !.to_update  = AllClean]

\* the head of render_line: "if self.tiles.need_update { ... }"
RefreshTiles(g) ==
    IF g.need_update
    THEN [update_tileset(g) EXCEPT !.need_update = FALSE]
    ELSE g

---------------------------------------------------------------------------
(* set_pixel_index                                                         *)

PixelBytes(first_byte, colori, pal) ==
    (first_byte :> pal[colori][0]) @@ (first_byte + 1 :> pal[colori][1])
    @@ (first_byte + 2 :> pal[colori][2]) @@ (first_byte + 3 :> pal[colori][0])

set_pixel_index(image_data, first_byte, colori, pal) ==
    Sparse(PixelBytes(first_byte, colori, pal) @@ image_data)

---------------------------------------------------------------------------
(* Gpu::render_background                                                  *)

bgbase(g) == IF g.bgmap THEN \h1c00 ELSE \h1800

\* the dead helper Gpu::add_tilei, which render_background no longer calls
add_tilei(g, base, tilei) ==
    IF g.tiledata THEN base + tilei
    ELSE base + (IF tilei >= 128 THEN tilei - 256 ELSE tilei)

\* "let tilebase = tilei%192;": the tile the background pass reads for map
\* byte tilei
BgTileIndex(g, tilei) == tilei % NUM_TILES

BgMapRow(g) == bgbase(g) + ((((g.ly + g.scy) % 256) \div 8) * 32)

BgTileY(g) == ((g.ly + g.scy) % 256) % 8

\* the loop of render_background: at column i a tile is fetched, and its row
\* is copied from tile column x until the tile or the line ends.  cols is
\* the sequence of the colour indices written so far (cols[i+1]: column i).
RECURSIVE BgLoop(_, _, _, _)
BgLoop(g, i, x, cols) ==
    LET mapoff == ((i + g.scx) % 256) \div 8
        tilei  == Get(g.vrambank, BgMapRow(g) + mapoff)
        row    == TileData(g, BgTileIndex(g, tilei))[BgTileY(g)]
        n      == Min2(8 - x, WIDTH - i)
        cols2  == cols \o [k \in 1..n |-> row[x + k - 1]]
    IN  IF i + n >= WIDTH THEN cols2 ELSE BgLoop(g, i + n, 0, cols2)

BgCols(g) == BgLoop(g, 0, g.scx % 8, <<>>)

\* the result of render_background: the scanline buffer and the frame buffer
render_background(g) ==
    LET cols  == BgCols(g)
        coff  == g.ly * WIDTH * 4
        row   == coff..(coff + 4 * WIDTH - 1)
        px(a) == PixelBytes(a - ((a - coff) % 4), cols[((a - coff) \div 4) + 1],
                            g.pal.bg)[a]
        img   == [a \in (DOMAIN g.image_data) \cup row |->
                     IF a \in row THEN px(a) ELSE g.image_data[a]]
    IN  [scanline |-> [i \in 0..(WIDTH - 1) |-> cols[i + 1]],
         gpu      |-> [g EXCEPT !.image_data = Sparse(img)]]

---------------------------------------------------------------------------
(* Gpu::render_sprites                                                     *)

\* self.oam.chunks(4): chunk n, a slice of up to four bytes
NumChunks == (OAM_SIZE + 3) \div 4

Chunk(oam, n) ==
    [i \in 0..(Min2(4, OAM_SIZE - 4 * n) - 1) |-> Get(oam, 4 * n + i)]

SpriteHeight(g) == IF g.objsize THEN 16 ELSE 8

\* "if yoff > line || yoff + ysize <= line || xoff <= -8 || xoff >= WIDTH"
SpriteSkipped(g, sprite) ==
    LET yoff == sprite[0] - 16
        xoff == sprite[1] - 8
    IN  \/ yoff > g.ly
        \/ yoff + SpriteHeight(g) <= g.ly
        \/ xoff <= -8
        \/ xoff >= WIDTH

\* the tile and the row of it that the sprite shows on line LY
SpriteTile(g, sprite) ==
    LET yoff == sprite[0] - 16
    IN  IF SpriteHeight(g) = 16
        THEN (sprite[2] - (sprite[2] % 2)) + (IF g.ly - yoff >= 8 THEN 1 ELSE 0)
        ELSE sprite[2]

SpriteRowIndex(g, sprite) ==
    LET yoff0 == sprite[0] - 16
        yoff  == IF SpriteHeight(g) = 16 /\ g.ly - yoff0 >= 8
                 THEN yoff0 + 8 ELSE yoff0
    IN  IF Bit(sprite[3], 6) # 0 THEN 7 - (g.ly - yoff) ELSE g.ly - yoff

\* "let palette = if flags & 0x10 != 0 {self.pal.obp0} else {self.pal.obp1};"
SpritePalette(g, flags) ==
    IF Bit(flags, 4) # 0 THEN g.pal.obp0 ELSE g.pal.obp1

\* the colour index of the sprite at its column x (0..7), after the flip
SpriteColori(g, sprite, x) ==
    LET row == TileData(g, SpriteTile(g, sprite))[SpriteRowIndex(g, sprite)]
    IN  row[IF Bit(sprite[3], 5) # 0 THEN 7 - x ELSE x]

SpriteDrawsOpaque(g, scanline, sprite, x) ==
    LET xoff == sprite[1] - 8
    IN  /\ ~(xoff + x < 0 \/ xoff + x >= WIDTH)
        /\ ~(scanline[xoff + x] > 3)
        /\ ~(Bit(sprite[3], 7) # 0 /\ scanline[xoff + x] # 0)

\* whether the inner loop writes the pixel of column x of the sprite
SpriteDraws(g, scanline, sprite, x) ==
    LET xoff == sprite[1] - 8
    IN  /\ ~(xoff + x < 0 \/ xoff + x >= WIDTH)
        /\ ~(scanline[xoff + x] > 3)
        /\ SpriteColori(g, sprite, x) # 0
        /\ ~(Bit(sprite[3], 7) # 0 /\ scanline[xoff + x] # 0)

\* "for x in 0..8": the frame buffer after columns x..7 of the sprite
RECURSIVE SpritePixels(_, _, _, _, _)
SpritePixels(g, scanline, sprite, x, img) ==
    IF x >= 8 THEN img
    ELSE LET coff == (WIDTH * g.ly + (sprite[1] - 8)) * 4 + 4 * (x + 1)
             img2 == IF SpriteDraws(g, scanline, sprite, x)
                     THEN set_pixel_index(img, coff - 4,
                                          SpriteColori(g, sprite, x),
                                          SpritePalette(g, sprite[3]))
                     ELSE img
         IN  SpritePixels(g, scanline, sprite, x + 1, img2)

\* "for sprite in self.oam.chunks(4)": the frame buffer after chunks n.., and
\* the panic of an index out of bounds
RECURSIVE SpriteLoop(_, _, _, _)
SpriteLoop(g, scanline, n, img) ==
    IF n >= NumChunks THEN [image_data |-> img, fault |-> "none"]
    ELSE LET sprite == Chunk(g.oam, n)
         IN  IF 3 \notin DOMAIN sprite
             THEN [image_data |-> img, fault |-> "oam index out of bounds"]
             ELSE IF SpriteSkipped(g, sprite)
             THEN SpriteLoop(g, scanline, n + 1, img)
             ELSE IF SpriteTile(g, sprite) >= NUM_TILES
             THEN [image_data |-> img, fault |-> "tile index out of bounds"]
             ELSE SpriteLoop(g, scanline, n + 1,
                             SpritePixels(g, scanline, sprite, 0, img))

render_sprites(g, scanline) ==
    LET r == SpriteLoop(g, scanline, 0, g.image_data)
    IN  [gpu |-> [g EXCEPT !.image_data = r.image_data], fault |-> r.fault]

---------------------------------------------------------------------------
(* Gpu::render_line                                                        *)

\* the scanline buffer the sprite pass receives
Scanline(g) ==
    IF g.bgon THEN render_background(g).scanline
    ELSE [i \in 0..(WIDTH - 1) |-> 0]

render_line_always(g) ==
    LET g1 == RefreshTiles(g)
        g2 == IF g1.bgon THEN render_background(g1).gpu ELSE g1
    IN  IF g2.objon
        THEN render_sprites(g2, Scanline(g1))
        ELSE [gpu |-> g2, fault |-> "none"]

render_line(g) ==
    IF ~g.lcdon THEN [gpu |-> g, fault |-> "none"]
    ELSE LET g1 == RefreshTiles(g)
             g2 == IF g1.bgon THEN render_background(g1).gpu ELSE g1
         IN  IF g2.objon
             THEN render_sprites(g2, Scanline(g1))
             ELSE [gpu |-> g2, fault |-> "none"]

---------------------------------------------------------------------------
(* Gpu::step and Gpu::switch                                               *)
(* A call in progress is the record [gpu, raised, render_at, fault].       *)

LineDoneLate(clock) == clock > LINE_CYCLES

\* "if self.clock >= 456"
LineDone(clock) == clock >= LINE_CYCLES

NextLineLate(ly) == (ly + 1) % (NUM_LINES + 1)

\* "self.ly = (self.ly + 1) % 154"
NextLine(ly) == (ly + 1) % NUM_LINES

EntersVBlankEachLine(g) == g.ly >= HEIGHT

\* "if self.ly >= 144 && self.mode != Mode::VBlank"
EntersVBlank(g) == g.ly >= HEIGHT /\ g.mode # "VBlank"

CoincidenceAlwaysEnabled(g) == g.ly = g.lyc

\* "if self.ly == self.lyc && self.lycly"
Coincidence(g) == g.ly = g.lyc /\ g.lycly

TargetModeStrict(clock) ==
    IF clock < OAM_CYCLES THEN "RdOam"
    ELSE IF clock < VRAM_CYCLES THEN "RdVram"
    ELSE "HBlank"

\* the mode the thresholds of the sub-line counter select on a visible line
TargetMode(clock) ==
    IF clock <= OAM_CYCLES THEN "RdOam"
    ELSE IF clock <= VRAM_CYCLES THEN "RdVram"
    ELSE "HBlank"

SwitchIrqVram(g, m) ==
    CASE m = "HBlank" -> IF g.mode0int THEN {"LCDStat"} ELSE {}
      [] m = "VBlank" -> {"Vblank"} \cup (IF g.mode1int THEN {"LCDStat"} ELSE {})
      [] m = "RdOam"  -> IF g.mode2int THEN {"LCDStat"} ELSE {}
      [] m = "RdVram" -> IF g.mode2int THEN {"LCDStat"} ELSE {}

\* the interrupt bits the entry action of mode m sets
SwitchIrq(g, m) ==
    CASE m = "HBlank" -> IF g.mode0int THEN {"LCDStat"} ELSE {}
      [] m = "VBlank" -> {"Vblank"} \cup (IF g.mode1int THEN {"LCDStat"} ELSE {})
      [] m = "RdOam"  -> IF g.mode2int THEN {"LCDStat"} ELSE {}
      [] m = "RdVram" -> {}

switch(s, m) ==
    LET g1 == [s.gpu EXCEPT !.mode = m]
    IN  IF m = "HBlank"
        THEN LET r == render_line(g1)
             IN  [gpu       |-> r.gpu,
                  fault     |-> r.fault,
                  render_at |-> Append(s.render_at, g1.ly),
                  raised    |-> IF r.fault = "none"
                                THEN s.raised \cup SwitchIrq(g1, m)
                                ELSE s.raised]
        ELSE [s EXCEPT !.gpu = g1, !.raised = @ \cup SwitchIrq(g1, m)]

\* the block "if self.clock >= 456 { ... }"
StepLine(s) ==
    IF LineDone(s.gpu.clock)
    THEN LET g1 == [s.gpu EXCEPT !.clock = @ - LINE_CYCLES, !.ly = NextLine(@)]
             s1 == [s EXCEPT !.gpu = g1]
             s2 == IF EntersVBlank(g1) THEN switch(s1, "VBlank") ELSE s1
         IN  IF Coincidence(s2.gpu)
             THEN [s2 EXCEPT !.raised = @ \cup {"LCDStat"}]
             ELSE s2
    ELSE s

StepModeHBlankAgain(s) ==
    IF /\ s.gpu.ly < HEIGHT
       /\ \/ s.gpu.mode # TargetMode(s.gpu.clock)
          \/ TargetMode(s.gpu.clock) = "HBlank"
    THEN switch(s, TargetMode(s.gpu.clock))
    ELSE s

StepModeRefires(s) ==
    IF s.gpu.ly < HEIGHT THEN switch(s, TargetMode(s.gpu.clock)) ELSE s

\* the block "if self.ly < 144 { ... }"
StepMode(s) ==
    IF s.gpu.ly < HEIGHT /\ s.gpu.mode # TargetMode(s.gpu.clock)
    THEN switch(s, TargetMode(s.gpu.clock))
    ELSE s

step(g, clocks) ==
    StepMode(StepLine([gpu       |-> [g EXCEPT !.clock = @ + clocks],
                       raised    |-> {},
                       render_at |-> <<>>,
                       fault     |-> "none"]))

---------------------------------------------------------------------------
(* The calls the host makes.  A panic ends the program: after it, no call. *)

Call(name, addr, val) == [name |-> name, addr |-> addr, val |-> val]

\* step(clocks, &mut if_) on a flag byte that holds the bits in
StepCall(clocks, in) ==
    /\ fault = "none"
    /\ \E s \in {step(gpu, clocks)} :
           /\ gpu' = s.gpu
           /\ if_' = in \cup s.raised
           /\ fault' = s.fault
           /\ raised' = s.raised
           /\ render_at' = s.render_at
    /\ op' = Call("step", in, clocks)

WbCall(addr, val) ==
    /\ fault = "none"
    /\ gpu' = wb(gpu, addr, val)
    /\ op' = Call("wb", addr, val)
    /\ raised' = {}
    /\ render_at' = <<>>
    /\ UNCHANGED <<if_, fault>>

WbVramCall(addr, data) ==
    /\ fault = "none"
    /\ gpu' = wb_vram(gpu, addr, data)
    /\ op' = Call("wb_vram", addr, data)
    /\ raised' = {}
    /\ render_at' = <<>>
    /\ UNCHANGED <<if_, fault>>

\* the host stores into the public field oam
OamCall(i, val) ==
    /\ fault = "none"
    /\ i \in 0..(OAM_SIZE - 1)
    /\ gpu' = [gpu EXCEPT !.oam = Put(@, i, val)]
    /\ op' = Call("oam", i, val)
    /\ raised' = {}
    /\ render_at' = <<>>
    /\ UNCHANGED <<if_, fault>>

\* rb(addr): the call leaves the device and hands back a byte, kept in op.val
RbCall(addr) ==
    /\ fault = "none"
    /\ op' = Call("rb", addr, rb(gpu, addr))
    /\ raised' = {}
    /\ render_at' = <<>>
    /\ UNCHANGED <<gpu, if_, fault>>

NoFrame == [tracked |-> FALSE, lines |-> <<>>]

NoMark == [marked |-> FALSE, ly |-> 0, clock |-> 0, acc |-> 0]

NoProbe == [kind |-> "none"]

Init ==
    /\ gpu = NewGpu
    /\ if_ = {}
    /\ fault = "none"
    /\ op = Call("new", 0, 0)
    /\ raised = {}
    /\ render_at = <<>>
    /\ frame = NoFrame
    /\ cyc = NoMark
    /\ probe = NoProbe

---------------------------------------------------------------------------
(* Spec: the mode state machine under the timing registers.  The host      *)
(* steps by a short and by a whole-line duration and writes LCDC, STAT and *)
(* LYC.                                                                    *)

StepClocks == {76, 456}

LcdcVals == {\h00, \h80, \h82}

StatVals == {\h00, \h40, \h38}

LycVals == {0, 144}

IfVals == {{}}

Step ==
    \E c \in StepClocks, in \in IfVals :
        StepCall(c, in) /\ UNCHANGED <<frame, cyc, probe>>

WbLcdc == \E v \in LcdcVals : WbCall(\hff40, v) /\ UNCHANGED <<frame, cyc, probe>>

WbStat == \E v \in StatVals : WbCall(\hff41, v) /\ UNCHANGED <<frame, cyc, probe>>

WbLyc == \E v \in LycVals : WbCall(\hff45, v) /\ UNCHANGED <<frame, cyc, probe>>

Next == Step \/ WbLcdc \/ WbStat \/ WbLyc

Spec == Init /\ [][Next]_vars

---------------------------------------------------------------------------
(* SpecFrame: the lines handed to the renderer in one frame.  Every step   *)
(* is at most 80 cycles; frame.lines collects the render_line calls since  *)
(* the step that wrapped LY to 0, and a write to LCDC ends the collection. *)

FrameClocks == {38, 76}

FrameLcdcVals == {\h00, \h80}

FrameAfterStep(f, before, after, calls) ==
    LET wrapped == after.ly = 0 /\ before.ly # 0
    IN  IF wrapped THEN [tracked |-> TRUE, lines |-> calls]
        ELSE IF f.tracked THEN [f EXCEPT !.lines = @ \o calls]
        ELSE f

StepFrame ==
    \E c \in FrameClocks :
        /\ StepCall(c, {})
        /\ frame' = FrameAfterStep(frame, gpu, gpu', render_at')
        /\ UNCHANGED <<cyc, probe>>

WbLcdcFrame ==
    \E v \in FrameLcdcVals :
        WbCall(\hff40, v) /\ frame' = NoFrame /\ UNCHANGED <<cyc, probe>>

WbStatFrame ==
    \E v \in {\h00, \h08} :
        WbCall(\hff41, v) /\ UNCHANGED <<frame, cyc, probe>>

NextFrame == StepFrame \/ WbLcdcFrame \/ WbStatFrame

SpecFrame == Init /\ [][NextFrame]_vars

---------------------------------------------------------------------------
(* SpecCycle: one full frame of cycles.  The host only steps; at a state   *)
(* on one of the lines MarkLines it may mark the start of a sequence of    *)
(* steps, whose cycles cyc.acc adds up, up to 456*154.                     *)

FRAME_CYCLES == LINE_CYCLES * NUM_LINES

CycleClocks == {12, 456}

MarkLines == {0, 143}

Mark ==
    /\ fault = "none"
    /\ ~cyc.marked
    /\ gpu.ly \in MarkLines
    /\ cyc' = [marked |-> TRUE, ly |-> gpu.ly, clock |-> gpu.clock, acc |-> 0]
    /\ op' = Call("mark", 0, 0)
    /\ UNCHANGED <<gpu, if_, fault, raised, render_at, frame, probe>>

StepCycle ==
    \E c \in CycleClocks :
        /\ cyc.marked => cyc.acc + c <= FRAME_CYCLES
        /\ StepCall(c, {})
        /\ cyc' = IF cyc.marked THEN [cyc EXCEPT !.acc = @ + c] ELSE cyc
        /\ UNCHANGED <<frame, probe>>

NextCycle == StepCycle \/ Mark

SpecCycle == Init /\ [][NextCycle]_vars

---------------------------------------------------------------------------
(* SpecTiles: the background pass over a changing VRAM.  The host writes   *)
(* a byte of tile 0, a byte of tile 129 and the first byte of the tile     *)
(* map, switches the display and the tile-data bit, and steps; MaxLine     *)
(* caps the lines the steps reach before the display is restarted.         *)

MaxLine == 1

TileClocks == {252}

TileLcdcVals == {\h00, \h81, \h91}

\* the writes: row 0 of tile 0, row 0 of tile 129, the first map byte
TileVram == {<<\h8000, 0>>, <<\h8000, 1>>, <<\h8810, 0>>, <<\h8810, 129>>,
             <<\h9800, 0>>, <<\h9800, 129>>}

StepTiles ==
    \E c \in TileClocks :
        /\ gpu.ly < MaxLine
        /\ StepCall(c, {})
        /\ UNCHANGED <<frame, cyc, probe>>

WbLcdcTiles ==
    \E v \in TileLcdcVals : WbCall(\hff40, v) /\ UNCHANGED <<frame, cyc, probe>>

WbVramTiles ==
    \E w \in TileVram : WbVramCall(w[1], w[2]) /\ UNCHANGED <<frame, cyc, probe>>

NextTiles == StepTiles \/ WbLcdcTiles \/ WbVramTiles

SpecTiles == Init /\ [][NextTiles]_vars

---------------------------------------------------------------------------
(* SpecSprites: the sprite pass.  The host fills the first two entries of  *)
(* OAM, writes a row of tiles 0 and 1, sets the sprite palettes, switches  *)
(* the display with sprites on, and steps.                                 *)

SpriteClocks == {252}

SpriteLcdcVals == {\h00, \h82}

\* the bytes the host stores into OAM: entry 0 at line 0, column 0, tile 0,
\* with either palette; entry 1 at line 0, column 0 or 4, tile 1
SpriteOam == {<<0, 16>>, <<1, 8>>, <<3, \h10>>,
              <<4, 16>>, <<5, 8>>, <<5, 12>>, <<6, 1>>}

\* row 0 of tile 0 in colour 1, row 0 of tile 1 in colour 2
SpriteVram == {<<\h8000, \hff>>, <<\h8011, \hff>>}

SpritePalVals == {\h1b}

StepSprites ==
    \E c \in SpriteClocks :
        /\ gpu.ly < MaxLine
        /\ StepCall(c, {})
        /\ UNCHANGED <<frame, cyc, probe>>

WbLcdcSprites ==
    \E v \in SpriteLcdcVals : WbCall(\hff40, v) /\ UNCHANGED <<frame, cyc, probe>>

WbObp ==
    \E v \in SpritePalVals : WbCall(\hff49, v) /\ UNCHANGED <<frame, cyc, probe>>

WbVramSprites ==
    \E w \in SpriteVram : WbVramCall(w[1], w[2]) /\ UNCHANGED <<frame, cyc, probe>>

OamSprites ==
    \E w \in SpriteOam : OamCall(w[1], w[2]) /\ UNCHANGED <<frame, cyc, probe>>

NextSprites ==
    StepSprites \/ WbLcdcSprites \/ WbObp \/ WbVramSprites \/ OamSprites

SpecSprites == Init /\ [][NextSprites]_vars

---------------------------------------------------------------------------
(* SpecRegs: the register file under every kind of call.  The host steps   *)
(* by a short, a whole-line and (from a counter inside the line) an        *)
(* over-long duration, switches the display, writes LY's port and ports    *)
(* that map to nothing, writes a byte of VRAM, and reads ports back.       *)

RegClocks == {76, 456}

LongClocks == {532}

RegLcdcVals == {\h00, \h80}

LyVals == {200}

\* low bytes 0x46 and 0xff select no register
UnmappedAddrs == {\hff46, \hffff}

ReadAddrs == {\hff44, \hff46}

StepRegs ==
    \E c \in RegClocks \cup LongClocks :
        /\ c \in LongClocks => gpu.clock < LINE_CYCLES
        /\ StepCall(c, {})
        /\ UNCHANGED <<frame, cyc, probe>>

WbLcdcRegs ==
    \E v \in RegLcdcVals : WbCall(\hff40, v) /\ UNCHANGED <<frame, cyc, probe>>

WbLy == \E v \in LyVals : WbCall(\hff44, v) /\ UNCHANGED <<frame, cyc, probe>>

WbUnmapped ==
    \E a \in UnmappedAddrs : WbCall(a, \ha5) /\ UNCHANGED <<frame, cyc, probe>>

WbVramRegs == WbVramCall(\h8000, 1) /\ UNCHANGED <<frame, cyc, probe>>

RbRegs == \E a \in ReadAddrs : RbCall(a) /\ UNCHANGED <<frame, cyc, probe>>

NextRegs ==
    StepRegs \/ WbLcdcRegs \/ WbLy \/ WbUnmapped \/ WbVramRegs \/ RbRegs

SpecRegs == Init /\ [][NextRegs]_vars

---------------------------------------------------------------------------
(* SpecSplit: one total of cycles split into calls in two ways.  The host  *)
(* brings the device to some state (steps, LCDC and STAT writes), then     *)
(* forks it: gpu runs one sequence of steps and probe.gpu, a copy of the   *)
(* device at the fork, runs another; probe.a and probe.b add up the cycles *)
(* of each and probe.ia and probe.ib the interrupt bits each has raised.   *)
(* MaxSplit caps the cycles stepped after the fork.                        *)

MaxSplit == 160

SplitClocks == {40, 80}

SplitLcdcVals == {\h00, \h80}

SplitStatVals == {\h00, \h28}

Forked == probe.kind = "split"

StepSplit ==
    \E c \in SplitClocks :
        /\ ~Forked
        /\ gpu.ly < MaxLine
        /\ StepCall(c, {})
        /\ UNCHANGED <<frame, cyc, probe>>

WbLcdcSplit ==
    \E v \in SplitLcdcVals :
        ~Forked /\ WbCall(\hff40, v) /\ UNCHANGED <<frame, cyc, probe>>

WbStatSplit ==
    \E v \in SplitStatVals :
        ~Forked /\ WbCall(\hff41, v) /\ UNCHANGED <<frame, cyc, probe>>

Fork ==
    /\ fault = "none"
    /\ ~Forked
    /\ probe' = [kind |-> "split", gpu |-> gpu, a |-> 0, b |-> 0,
                 ia |-> {}, ib |-> {}]
    /\ op' = Call("fork", 0, 0)
    /\ UNCHANGED <<gpu, if_, fault, raised, render_at, frame, cyc>>

\* a step of the first sequence, on gpu
StepA ==
    \E c \in SplitClocks :
        /\ Forked
        /\ probe.a + c <= MaxSplit
        /\ StepCall(c, {})
        /\ probe' = [probe EXCEPT !.a = @ + c, !.ia = @ \cup raised']
        /\ UNCHANGED <<frame, cyc>>

\* a step of the second sequence, on the copy
StepB ==
    \E c \in SplitClocks :
        /\ Forked
        /\ fault = "none"
        /\ probe.b + c <= MaxSplit
        /\ \E s \in {step(probe.gpu, c)} :
               /\ s.fault = "none"
               /\ probe' = [probe EXCEPT !.gpu = s.gpu, !.b = @ + c,
                                         !.ib = @ \cup s.raised]
        /\ op' = Call("step_b", {}, c)
        /\ UNCHANGED <<gpu, if_, fault, raised, render_at, frame, cyc>>

NextSplit ==
    StepSplit \/ WbLcdcSplit \/ WbStatSplit \/ Fork \/ StepA \/ StepB

SpecSplit == Init /\ [][NextSplit]_vars

---------------------------------------------------------------------------
(* SpecOff: stepping with the display off.  The host switches between the  *)
(* display on with the background and off with the background, the sprites *)
(* and the window enabled, rewrites a byte of tile 0, and steps through    *)
(* the H-blank entries of the first lines.                                 *)

OffClocks == {128, 252}

OffLcdcVals == {\h81, \h03, \h23}

OffVram == {<<\h8000, 0>>, <<\h8000, 1>>}

StepOff ==
    \E c \in OffClocks :
        /\ gpu.ly < MaxLine
        /\ StepCall(c, {})
        /\ UNCHANGED <<frame, cyc, probe>>

WbLcdcOff ==
    \E v \in OffLcdcVals : WbCall(\hff40, v) /\ UNCHANGED <<frame, cyc, probe>>

WbVramOff ==
    \E w \in OffVram : WbVramCall(w[1], w[2]) /\ UNCHANGED <<frame, cyc, probe>>

NextOff == StepOff \/ WbLcdcOff \/ WbVramOff

SpecOff == Init /\ [][NextOff]_vars

---------------------------------------------------------------------------
(* SpecPal: the palette registers.  The host writes every byte to BGP and  *)
(* two bytes to OBP0 and OBP1, and steps.                                  *)

PalClocks == {456}

BgpVals == 0..255

ObpVals == {\he4, \h1b}

StepPal ==
    \E c \in PalClocks :
        /\ gpu.ly < MaxLine
        /\ StepCall(c, {})
        /\ UNCHANGED <<frame, cyc, probe>>

WbBgp == \E v \in BgpVals : WbCall(\hff47, v) /\ UNCHANGED <<frame, cyc, probe>>

WbObp0 == \E v \in ObpVals : WbCall(\hff48, v) /\ UNCHANGED <<frame, cyc, probe>>

WbObp1 == \E v \in ObpVals : WbCall(\hff49, v) /\ UNCHANGED <<frame, cyc, probe>>

NextPal == StepPal \/ WbBgp \/ WbObp0 \/ WbObp1

SpecPal == Init /\ [][NextPal]_vars

---------------------------------------------------------------------------
(* SpecDecode: the decoding of a row of a tile.  probe holds a pair of row *)
(* bytes, any two bytes; the decoding loop is applied to it.  For the      *)
(* pairs of RowSample the host also writes the two bytes into row j of     *)
(* tile t of VRAM, turns the display on and steps to the H-blank entry     *)
(* that refreshes the tile cache.                                          *)

DecodeClocks == {252}

RowSample == {<<\h1b, \h6a>>, <<\hff, \h00>>, <<\h80, \h01>>}

RowTiles == {0, 191}

RowRows == {0, 7}

InitDecode ==
    /\ gpu = NewGpu
    /\ if_ = {}
    /\ fault = "none"
    /\ op = Call("new", 0, 0)
    /\ raised = {}
    /\ render_at = <<>>
    /\ frame = NoFrame
    /\ cyc = NoMark
    /\ probe \in [kind : {"row"}, lsb : 0..255, msb : 0..255, row : {<<>>},
                  stage : {0}, t : {0}, j : {0}]

\* the loop over the eight bits of the pair
DecodeRowStep ==
    /\ probe.row = <<>>
    /\ probe.stage = 0
    /\ probe' = [probe EXCEPT !.row = DecodeRow(probe.lsb, probe.msb)]
    /\ op' = Call("decode", probe.lsb, probe.msb)
    /\ UNCHANGED <<gpu, if_, fault, raised, render_at, frame, cyc>>

WbRowLsb ==
    \E t \in RowTiles, j \in RowRows :
        /\ probe.stage = 0
        /\ <<probe.lsb, probe.msb>> \in RowSample
        /\ WbVramCall(\h8000 + 16 * t + 2 * j, probe.lsb)
        /\ probe' = [probe EXCEPT !.stage = 1, !.t = t, !.j = j]
        /\ UNCHANGED <<frame, cyc>>

WbRowMsb ==
    /\ probe.stage = 1
    /\ WbVramCall(\h8000 + 16 * probe.t + 2 * probe.j + 1, probe.msb)
    /\ probe' = [probe EXCEPT !.stage = 2]
    /\ UNCHANGED <<frame, cyc>>

WbLcdcDecode ==
    /\ probe.stage = 2
    /\ ~gpu.lcdon
    /\ WbCall(\hff40, \h80)
    /\ UNCHANGED <<frame, cyc, probe>>

StepDecode ==
    \E c \in DecodeClocks :
        /\ probe.stage = 2
        /\ gpu.lcdon
        /\ gpu.ly < MaxLine
        /\ StepCall(c, {})
        /\ UNCHANGED <<frame, cyc, probe>>

NextDecode ==
    DecodeRowStep \/ WbRowLsb \/ WbRowMsb \/ WbLcdcDecode \/ StepDecode

SpecDecode == InitDecode /\ [][NextDecode]_vars

---------------------------------------------------------------------------
(* SpecBox: the box of one sprite.  The host places OAM entry 0 above, on  *)
(* and below line 0 and across the left and the right edge of the screen,  *)
(* sets its flip and priority flags, gives rows of tiles 0 and 1 four      *)
(* transparent and four coloured pixels, turns the display on with 8 or    *)
(* 16 pixel sprites, and steps.                                            *)

BoxClocks == {252}

BoxLcdcVals == {\h82, \h86}

BoxOam == {<<0, 16>>, <<0, 9>>, <<0, 1>>, <<0, 17>>,
           <<1, 8>>, <<1, 4>>, <<1, 164>>,
           <<3, \h20>>, <<3, \h40>>, <<3, \he0>>}

\* row 0 and row 7 of tile 0, row 7 of tile 1
BoxVram == {<<\h8000, \h0f>>, <<\h800e, \h0f>>, <<\h801e, \hf0>>}

StepBox ==
    \E c \in BoxClocks :
        /\ gpu.ly < MaxLine
        /\ StepCall(c, {})
        /\ UNCHANGED <<frame, cyc, probe>>

WbLcdcBox ==
    \E v \in BoxLcdcVals : WbCall(\hff40, v) /\ UNCHANGED <<frame, cyc, probe>>

WbVramBox ==
    \E w \in BoxVram : WbVramCall(w[1], w[2]) /\ UNCHANGED <<frame, cyc, probe>>

OamBox ==
    \E w \in BoxOam : OamCall(w[1], w[2]) /\ UNCHANGED <<frame, cyc, probe>>

NextBox == StepBox \/ WbLcdcBox \/ WbVramBox \/ OamBox

SpecBox == Init /\ [][NextBox]_vars

---------------------------------------------------------------------------
(* The claims                                                              *)

IsStep(o) == o.name = "step"

IsWb(o, port) == o.name = "wb" /\ o.addr % 256 = port

\* C1: a step sets the V-blank bit exactly when it advances LY from 143 to
\* 144 (once in every 154-line cycle), and in no step that moves LY to
\* another line or leaves it.
C1_VblankOnlyAt144 ==
    [][IsStep(op') =>
         (("Vblank" \in raised') <=> (gpu.ly = HEIGHT - 1 /\ gpu'.ly = HEIGHT))]_vars

C1_Witness ==
    /\ IsStep(op)
    /\ "Vblank" \in raised
    /\ gpu.ly = HEIGHT

\* C2: in a frame stepped by at most 80 cycles a call and without a write
\* to LCDC, render_line is invoked once for each line 0..143, in increasing
\* order, with LY equal to that line and on the entry to H-blank, and never
\* on the lines 144..153: the calls since the wrap are 0..LY-1, plus LY once
\* the line is in H-blank, and all of 0..143 when V-blank is entered.
Upto(n) == [i \in 1..n |-> i - 1]

C2_RenderOncePerLine ==
    /\ render_at # <<>> =>
           render_at = <<gpu.ly>> /\ gpu.mode = "HBlank" /\ gpu.ly < HEIGHT
    /\ frame.tracked =>
           frame.lines = Upto(IF gpu.ly >= HEIGHT THEN HEIGHT
                              ELSE IF gpu.mode = "HBlank" THEN gpu.ly + 1
                              ELSE gpu.ly)

C2_Witness ==
    /\ frame.tracked
    /\ IsStep(op)
    /\ "Vblank" \in raised
    /\ frame.lines = Upto(HEIGHT)

\* C3: with the three mode interrupt enables off, a step sets the
\* LCD-status bit if and only if it advances the line (the counter reached
\* 456), the new LY equals LYC and the coincidence enable is set.
C3_CoincidenceOnLineEdge ==
    [][(IsStep(op') /\ ~gpu.mode0int /\ ~gpu.mode1int /\ ~gpu.mode2int) =>
         (("LCDStat" \in raised') <=>
              (/\ gpu.clock + op'.val >= LINE_CYCLES
               /\ gpu'.ly # gpu.ly
               /\ gpu'.ly = gpu.lyc
               /\ gpu.lycly))]_vars

C3_Witness ==
    /\ IsStep(op)
    /\ ~gpu.mode0int /\ ~gpu.mode1int /\ ~gpu.mode2int
    /\ "LCDStat" \in raised
    /\ gpu.ly = gpu.lyc
    /\ gpu.ly = HEIGHT

\* C4: a sequence of steps of at most 456 cycles each that sums to 456*154
\* brings LY and the sub-line counter back to their values at its start, and
\* every step advances LY by one modulo 154 exactly when the counter with
\* the step's cycles added reaches or exceeds 456, taking 456 off it.
C4_Returns ==
    (cyc.marked /\ cyc.acc = FRAME_CYCLES) =>
        (gpu.ly = cyc.ly /\ gpu.clock = cyc.clock)

C4_LineRule ==
    IsStep(op') =>
        IF gpu.clock + op'.val >= LINE_CYCLES
        THEN gpu'.ly = (gpu.ly + 1) % NUM_LINES
             /\ gpu'.clock = gpu.clock + op'.val - LINE_CYCLES
        ELSE gpu'.ly = gpu.ly /\ gpu'.clock = gpu.clock + op'.val

\* C4: steps of at most 456 cycles that sum to 456*154 return LY and the
\* sub-line counter to their starting values, and each step obeys the line
\* rule above.
C4_FullFrameReturns == []C4_Returns /\ [][C4_LineRule]_vars

C4_Witness ==
    /\ cyc.marked
    /\ cyc.acc = FRAME_CYCLES
    /\ cyc.ly = HEIGHT - 1
    /\ gpu.ly = HEIGHT - 1
    /\ cyc.clock = 0

\* a step has just run the renderer with the display enabled
Rendered == IsStep(op) /\ render_at # <<>> /\ gpu.lcdon /\ fault = "none"

Tiles == 0..(NUM_TILES - 1)

\* the colour index that the 16 VRAM bytes of the tile the background pass
\* reads at column i hold for this line
VramColour(g, i) ==
    LET px    == (i + g.scx) % 256
        tilei == Get(g.vrambank, BgMapRow(g) + (px \div 8))
    IN  DecodeTile(g, BgTileIndex(g, tilei))[BgTileY(g)][px % 8]

\* the frame buffer holds, at column i of line LY, the colour index c of the
\* background palette
BgPixelIs(g, i, c) ==
    LET a == (g.ly * WIDTH + i) * 4
    IN  \A k \in 0..3 : Get(g.image_data, a + k) = PixelBytes(a, c, g.pal.bg)[a + k]

\* the tiles whose cached grid is not the decoding of their 16 VRAM bytes:
\* a tile with no non-zero byte in VRAM and no non-zero cached pixel is not
\* one of them, as sixteen zero bytes decode to the zero grid
Differing(g) ==
    LET written == {a \div 16 : a \in {x \in DOMAIN g.vrambank : x < NUM_TILES * 16}}
    IN  {t \in written \cup DOMAIN g.tiles_data : TileData(g, t) # DecodeTile(g, t)}

\* C5: at every moment a tile that is not flagged dirty is cached as the
\* decoding of its current 16 VRAM bytes and a dirty tile raises the
\* aggregate flag, so that the refresh at the head of render_line leaves
\* every tile equal to the decoding of VRAM; after a step that rendered with
\* the display on no tile is dirty, every cached tile equals that decoding,
\* and the background pixels of the line are those of the VRAM bytes.
C5_TileCacheCoherent ==
    /\ DecodeRow(0, 0) = ZeroRow
    /\ \A t \in Tiles : ToUpdate(gpu, t) => gpu.need_update
    /\ \A t \in Differing(gpu) : ToUpdate(gpu, t)
    /\ Differing(RefreshTiles(gpu)) = {}
    /\ Rendered =>
           /\ ~gpu.need_update
           /\ \A t \in Tiles : ~ToUpdate(gpu, t)
           /\ Differing(gpu) = {}
           /\ gpu.bgon /\ ~gpu.objon =>
                  \A i \in 0..(WIDTH - 1) : BgPixelIs(gpu, i, VramColour(gpu, i))

\* a line whose first eight columns are drawn from tile 129 and the rest
\* from tile 0, both with bytes the host wrote into VRAM
C5_Witness ==
    /\ Rendered
    /\ gpu.bgon
    /\ Get(gpu.vrambank, \h1800) = 129
    /\ Get(gpu.vrambank, \h0810) = 129
    /\ Get(gpu.vrambank, \h0000) = 1
    /\ TileData(gpu, 129)[0][0] = 1
    /\ BgPixelIs(gpu, 0, 1)
    /\ BgPixelIs(gpu, 8, 0)
    /\ BgPixelIs(gpu, 15, 1)

\* the tile the background pass is to draw for map byte b: b itself from
\* base 0 with the tile-data bit set, and a signed offset from the base tile
\* 128 with the bit clear
SignedTileIndex(tiledata, b) ==
    IF tiledata THEN b
    ELSE 128 + (IF b >= 128 THEN b - 256 ELSE b)

\* the map byte the background pass fetches for column i of line LY
BgMapByte(g, i) == Get(g.vrambank, BgMapRow(g) + (((i + g.scx) % 256) \div 8))

\* C7: in a line drawn by the background pass, the tile drawn at every
\* column is the unsigned map byte with the tile-data bit set and the signed
\* offset from the base tile with the bit clear.
C7_SignedTileIndex ==
    (Rendered /\ gpu.bgon) =>
        \A i \in 0..(WIDTH - 1) :
            BgTileIndex(gpu, BgMapByte(gpu, i))
                = SignedTileIndex(gpu.tiledata, BgMapByte(gpu, i))

\* a step has just run the sprite pass with the display on
SpriteRendered == IsStep(op) /\ render_at # <<>> /\ gpu.lcdon /\ gpu.objon

\* C6: OAM is 40 complete entries of four bytes, and a step that renders a
\* line with the display and the sprites on, over an OAM whose tile fields
\* all lie inside the tile table, ends without a fatal error.
C6_SpritePassCompletes ==
    (/\ SpriteRendered
     /\ \A n \in 0..(NumChunks - 1) : Chunk(gpu.oam, n)[2] < NUM_TILES)
        => /\ NumChunks = 40
           /\ \A n \in 0..(NumChunks - 1) : DOMAIN Chunk(gpu.oam, n) = 0..3
           /\ fault = "none"

\* the complete OAM entries that land on line LY
OnLine(g) ==
    {n \in 0..(NumChunks - 1) :
        /\ DOMAIN Chunk(g.oam, n) = 0..3
        /\ ~SpriteSkipped(g, Chunk(g.oam, n))}

\* the entries of OnLine whose pixel at screen column c passes every test of
\* the inner loop: on screen, not transparent, not behind the background
Drawers(g, scanline, c) ==
    {n \in OnLine(g) :
        LET x == c - (Chunk(g.oam, n)[1] - 8)
        IN  x \in 0..7 /\ SpriteDraws(g, scanline, Chunk(g.oam, n), x)}

Min(S) == CHOOSE m \in S : \A k \in S : m <= k

\* the frame buffer holds at column c of line LY the pixel of OAM entry n
\* in the palette pal
SpritePixelIs(g, c, n, pal) ==
    LET sprite == Chunk(g.oam, n)
        a      == (g.ly * WIDTH + c) * 4
        bytes  == PixelBytes(a, SpriteColori(g, sprite, c - (sprite[1] - 8)), pal)
    IN  \A k \in 0..3 : Get(g.image_data, a + k) = bytes[a + k]

\* C8: where two or more sprites of the line have a pixel to draw at the
\* same column, the frame buffer holds the pixel of the one that comes
\* first in OAM.
C8_EarlierSpriteWins ==
    SpriteRendered =>
        LET scanline == Scanline(gpu)
        IN  \A c \in 0..(WIDTH - 1) :
                LET d == Drawers(gpu, scanline, c)
                IN  Cardinality(d) >= 2 =>
                        SpritePixelIs(gpu, c, Min(d),
                                      SpritePalette(gpu, Chunk(gpu.oam, Min(d))[3]))

\* the compiled palette that bit 4 of the flags byte is to select
FlagPalette(g, flags) ==
    IF Bit(flags, 4) # 0 THEN g.pal.obp1 ELSE g.pal.obp0

\* C9: a pixel that a single sprite draws is coloured from the compiled
\* palette OBP1 when bit 4 of its flags is set and from OBP0 when it is
\* clear.
C9_PaletteByFlag ==
    SpriteRendered =>
        LET scanline == Scanline(gpu)
        IN  \A c \in 0..(WIDTH - 1) :
                LET d == Drawers(gpu, scanline, c)
                IN  Cardinality(d) = 1 =>
                        SpritePixelIs(gpu, c, Min(d),
                                      FlagPalette(gpu, Chunk(gpu.oam, Min(d))[3]))

\* C10: a write to port 0x40 that turns the LCD-enable bit from 0 to 1 sets
\* LY to 0 and the cycle counter to 4 and leaves the mode; any other write
\* to port 0x40 leaves LY, the counter and the mode.
C10_LcdOnResetsLine ==
    [][IsWb(op', \h40) =>
         IF ~gpu.lcdon /\ Bit(op'.val, 7) = 1
         THEN gpu'.ly = 0 /\ gpu'.clock = 4 /\ gpu'.mode = gpu.mode
         ELSE gpu'.ly = gpu.ly /\ gpu'.clock = gpu.clock
              /\ gpu'.mode = gpu.mode]_vars

C10_Witness ==
    /\ IsWb(op, \h40)
    /\ gpu.lcdon
    /\ gpu.ly = 0
    /\ gpu.clock = 4
    /\ gpu.mode = "VBlank"

C11_LyRange == gpu.ly \in 0..(NUM_LINES - 1)

C11_LyWriters ==
    /\ IsWb(op', \h44) => gpu' = gpu
    /\ gpu'.ly # gpu.ly =>
           \/ IsStep(op') /\ gpu'.ly = (gpu.ly + 1) % NUM_LINES
           \/ IsWb(op', \h40) /\ ~gpu.lcdon /\ gpu'.lcdon /\ gpu'.ly = 0

\* C11: LY is always within 0..153; a write to port 0x44 changes nothing of
\* the device; LY changes only in a step, by one modulo 154, or to 0 in the
\* write to port 0x40 that turns the display on.
C11_LyReadOnly == []C11_LyRange /\ [][C11_LyWriters]_vars

\* the host has written 200 to port 0x44 on the last line, 153, display on
C11_Witness ==
    /\ IsWb(op, \h44)
    /\ op.val = 200
    /\ gpu.ly = NUM_LINES - 1
    /\ gpu.lcdon

\* C12: two sequences of steps of at most 80 cycles each, run from the same
\* state and summing to the same total, end with the same LY, sub-line
\* counter and mode and have raised the same set of interrupt bits.
C12_SplitIndependent ==
    (Forked /\ probe.a = probe.b) =>
        /\ gpu.ly = probe.gpu.ly
        /\ gpu.clock = probe.gpu.clock
        /\ gpu.mode = probe.gpu.mode
        /\ probe.ia = probe.ib

\* C13: a step made while the LCD-enable bit is off changes nothing of the
\* device but the counter, LY and the mode, whatever the background, window
\* and sprite enables are: the frame buffer, the decoded tiles and the dirty
\* flags stay, so a step that changes one of them runs with the bit on.
C13_OffNoRender ==
    [][(IsStep(op') /\ ~gpu.lcdon) =>
          /\ fault' = "none"
          /\ gpu' = [gpu EXCEPT !.clock = gpu'.clock, !.ly = gpu'.ly,
                                !.mode = gpu'.mode]]_vars

\* an H-blank entry with the display off and all three layers enabled,
\* over a frame buffer drawn earlier and a tile rewritten since
C13_Witness ==
    /\ IsStep(op)
    /\ render_at # <<>>
    /\ ~gpu.lcdon
    /\ gpu.bgon /\ gpu.objon /\ gpu.winon
    /\ gpu.image_data # Empty
    /\ gpu.need_update
    /\ ToUpdate(gpu, 0)
    /\ Differing(gpu) # {}

\* the entry of the base colour table that bits 2i+1 and 2i of v select
BaseColour(v, i) == PALETTE[2 * Bit(v, 2 * i + 1) + Bit(v, 2 * i)]

\* the compiled palette that a write to the port of op has just set
Written(o) ==
    CASE o.addr % 256 = \h47 -> gpu.pal.bg
      [] o.addr % 256 = \h48 -> gpu.pal.obp0
      [] o.addr % 256 = \h49 -> gpu.pal.obp1

\* C14: the palette compiler sets slot i to the base colour at the index
\* held in bits 2i+1 and 2i of the register byte, for every byte and slot:
\* so does every write to a palette port, and compiling 0xE4 gives the base
\* table itself.
C14_PaletteCompile ==
    /\ \A v \in 0..255 : \A i \in 0..3 : update_pal(v)[i] = BaseColour(v, i)
    /\ update_pal(\he4) = PALETTE
    /\ (IsWb(op, \h47) \/ IsWb(op, \h48) \/ IsWb(op, \h49)) =>
           \A i \in 0..3 : Written(op)[i] = BaseColour(op.val, i)

\* BGP has been written with 0x1B, which reverses the base table
C14_Witness ==
    /\ IsWb(op, \h47)
    /\ op.val = \h1b
    /\ \A i \in 0..3 : gpu.pal.bg[i] = PALETTE[3 - i]
    /\ gpu.pal.bg # PALETTE

\* C20: in every state, the power-on state included, each compiled palette
\* is the palette compiler applied to the byte its register port reads back.
C20_PaletteMatchesRegister ==
    /\ gpu.pal.bg = update_pal(rb(gpu, \hff47))
    /\ gpu.pal.obp0 = update_pal(rb(gpu, \hff48))
    /\ gpu.pal.obp1 = update_pal(rb(gpu, \hff49))

\* the row whose position k (0 = leftmost) holds bit 7-k of the two bytes:
\* msb gives the high bit of the colour index, lsb the low bit
BitPlanes(lsb, msb) == [k \in 0..7 |-> 2 * Bit(msb, 7 - k) + Bit(lsb, 7 - k)]

\* C15: a pair of row bytes decodes to the colour indices of its two bit
\* planes, bit 7 leftmost; 0b00011011 and 0b01101010 give [0,2,2,1,3,0,3,1];
\* and row j of tile t in the cache is the decoding of VRAM bytes 16t+2j
\* and 16t+2j+1, every other row of every tile being that of zero bytes.
C15_DecodeRow ==
    /\ probe.kind = "row" /\ probe.row # <<>> =>
           probe.row = BitPlanes(probe.lsb, probe.msb)
    /\ DecodeRow(\h1b, \h6a) = Arr(<<0, 2, 2, 1, 3, 0, 3, 1>>)
    /\ (probe.kind = "row" /\ probe.stage = 2 /\ Rendered) =>
           \A t \in Tiles : \A j \in 0..7 :
               TileData(gpu, t)[j] =
                   IF t = probe.t /\ j = probe.j
                   THEN BitPlanes(probe.lsb, probe.msb)
                   ELSE ZeroRow

\* the example pair decoded by the loop, and the same pair read back from
\* the cache at the last row of the last tile
C15_Witness ==
    /\ probe.kind = "row"
    /\ probe.lsb = \h1b /\ probe.msb = \h6a
    /\ Rendered
    /\ probe.t = 191 /\ probe.j = 7
    /\ probe.row = Arr(<<0, 2, 2, 1, 3, 0, 3, 1>>)
    /\ TileData(gpu, 191)[7] = probe.row

\* OAM entry n has, on line LY, a pixel of non-zero colour index (after the
\* flips) at screen column c inside its box: Y-16 <= LY < Y-16+height,
\* X-8 <= c < X, 0 <= c < 160
InBox(g, n, c) ==
    LET sprite == Chunk(g.oam, n)
    IN  /\ DOMAIN sprite = 0..3
        /\ sprite[0] - 16 <= g.ly /\ g.ly < sprite[0] - 16 + SpriteHeight(g)
        /\ sprite[1] - 8 <= c /\ c < sprite[1]
        /\ 0 <= c /\ c < WIDTH
        /\ SpriteColori(g, sprite, c - (sprite[1] - 8)) # 0

\* C16: after a sprite pass over an empty frame buffer, a byte of the frame
\* buffer is written only on the current line, and only at a column inside
\* the box of some sprite whose colour index there is not 0, whatever the
\* flags; with no background drawn, every such column is written.
C16_SpriteBox ==
    SpriteRendered =>
        /\ \A a \in DOMAIN gpu.image_data :
               /\ (a \div 4) \div WIDTH = gpu.ly
               /\ \E n \in 0..(NumChunks - 1) : InBox(gpu, n, (a \div 4) % WIDTH)
        /\ \A c \in 0..(WIDTH - 1) :
               (\E n \in 0..(NumChunks - 1) : InBox(gpu, n, c)) =>
                   (gpu.ly * WIDTH + c) * 4 \in DOMAIN gpu.image_data

\* a sprite at Y=16, X=8 with its flags set, whose row has four transparent
\* columns: columns 0..3 are written, columns 4..7 are not
C16_Witness ==
    /\ SpriteRendered
    /\ gpu.ly = 0
    /\ Chunk(gpu.oam, 0) = [i \in 0..3 |-> <<16, 8, 0, \he0>>[i + 1]]
    /\ \A c \in 0..3 : c * 4 \in DOMAIN gpu.image_data
    /\ \A c \in 4..(WIDTH - 1) : c * 4 \notin DOMAIN gpu.image_data

\* the low bytes that select a register
MappedPorts == (\h40..\h45) \cup (\h47..\h4b) \cup {\h4f}

\* in every state, for every port whose low byte selects no register, a read
\* returns 0xFF and a write leaves the device as it is
C17_UnmappedPorts ==
    /\ \A port \in (0..255) \ MappedPorts :
           /\ rb(gpu, \hff00 + port) = 255
           /\ \A val \in {0, 255} : wb(gpu, \hff00 + port, val) = gpu
    /\ (op.name = "rb" /\ op.addr % 256 \notin MappedPorts) => op.val = 255

C17_WriteIgnored ==
    (op'.name = "wb" /\ op'.addr % 256 \notin MappedPorts) => gpu' = gpu

\* C17: a read of a port whose low byte selects no register (not 0x40..0x45,
\* 0x47..0x4B or 0x4F) returns 0xFF, and a write to such a port leaves the
\* whole device unchanged, in every state and for every access the host makes.
C17_Unmapped == []C17_UnmappedPorts /\ [][C17_WriteIgnored]_vars

\* an unmapped port is written while the display is on and past line 0, and
\* the DMA port has been read
C17_Witness ==
    /\ gpu.lcdon /\ gpu.ly > 0
    /\ \/ op.name = "wb" /\ op.addr = \hff46
       \/ op.name = "rb" /\ op.addr = \hff46 /\ op.val = 255

\* the mode the claim assigns to a line index and a sub-line counter
ModeOf(ly, clock) ==
    IF ly >= 144 THEN "VBlank"
    ELSE IF clock <= 80 THEN "RdOam"
    ELSE IF 80 < clock /\ clock <= 252 THEN "RdVram"
    ELSE "HBlank"

\* C18: after every step call, whatever the cycles and the host writes before
\* it, the mode is the function of LY and the sub-line counter: V-blank when
\* LY >= 144, else OAM-scan up to 80, VRAM-read up to 252, H-blank beyond; the
\* mode differs from it only after a host write or at power-on.
C18_ModeFunction ==
    IsStep(op) => gpu.mode = ModeOf(gpu.ly, gpu.clock)

\* a step leaves the counter on the last cycle of the OAM scan
C18_Witness ==
    /\ op.name = "step"
    /\ gpu.ly < HEIGHT
    /\ gpu.clock = OAM_CYCLES
    /\ gpu.mode = "RdOam"

\* the step about to return stays on its line and in the mode it started in
SameMode ==
    /\ IsStep(op')
    /\ gpu.clock + op'.val < 456
    /\ ModeOf(gpu.ly, gpu.clock + op'.val) = gpu.mode

\* C19: a step that does not advance the line and whose computed mode is the
\* mode before the call performs no entry action: it raises no interrupt bit,
\* does not invoke render_line, and changes nothing of the device but the
\* sub-line counter, however often it is repeated within the mode.
C19_NoReentry ==
    [][SameMode =>
         /\ raised' = {}
         /\ if_' = op'.addr
         /\ render_at' = <<>>
         /\ fault' = "none"
         /\ gpu' = [gpu EXCEPT !.clock = gpu.clock + op'.val]]_vars

\* a second step inside H-blank, with the H-blank interrupt enabled, has
\* raised nothing and rendered nothing
C19_Witness ==
    /\ IsStep(op)
    /\ gpu.mode = "HBlank"
    /\ gpu.mode0int
    /\ gpu.lcdon
    /\ gpu.clock - op.val > 252
    /\ raised = {}
    /\ render_at = <<>>

---------------------------------------------------------------------------
(* SpecStat: the host reads the status port 0x41 between steps and writes  *)
(* to LCDC, STAT and LYC.                                                  *)

StatClocks == {228, 456}

StatLcdcVals == {\h00, \h80}

StatEnables == {\h00, \h40, \h28}

StatLycVals == {0, 1, 144}

StepStat ==
    \E c \in StatClocks : StepCall(c, {}) /\ UNCHANGED <<frame, cyc, probe>>

WbLcdcStat ==
    \E v \in StatLcdcVals : WbCall(\hff40, v) /\ UNCHANGED <<frame, cyc, probe>>

WbStatStat ==
    \E v \in StatEnables : WbCall(\hff41, v) /\ UNCHANGED <<frame, cyc, probe>>

WbLycStat ==
    \E v \in StatLycVals : WbCall(\hff45, v) /\ UNCHANGED <<frame, cyc, probe>>

RbStat == RbCall(\hff41) /\ UNCHANGED <<frame, cyc, probe>>

NextStat == StepStat \/ WbLcdcStat \/ WbStatStat \/ WbLycStat \/ RbStat

SpecStat == Init /\ [][NextStat]_vars

\* the host has just read the status port
ReadStat == op.name = "rb" /\ op.addr % 256 = \h41

\* C21: a read of port 0x41 returns bit 2 set exactly when LY equals LYC at
\* the time of the read, whatever the coincidence enable; bits 0-1 are the
\* mode number and bits 3-6 the stored enable bits.
C21_StatRead ==
    ReadStat =>
        /\ Bit(op.val, 2) = 1 <=> gpu.ly = gpu.lyc
        /\ op.val % 4 = ModeNum(gpu.mode)
        /\ Bit(op.val, 3) = 1 <=> gpu.mode0int
        /\ Bit(op.val, 4) = 1 <=> gpu.mode1int
        /\ Bit(op.val, 5) = 1 <=> gpu.mode2int
        /\ Bit(op.val, 6) = 1 <=> gpu.lycly

---------------------------------------------------------------------------
(* SpecIrq: steps on a flag byte that already holds bits, with each of the *)
(* four interrupt enables of STAT set alone.                               *)

IrqClocks == {152, 456}

IrqIn == {{}, {"Timer", "LCDStat"}}

IrqLcdcVals == {\h00, \h80, \h82}

IrqStatVals == {\h00, \h08, \h10, \h20, \h40}

IrqLycVals == {0, 144}

StepIrq ==
    \E c \in IrqClocks, in \in IrqIn :
        StepCall(c, in) /\ UNCHANGED <<frame, cyc, probe>>

WbLcdcIrq ==
    \E v \in IrqLcdcVals : WbCall(\hff40, v) /\ UNCHANGED <<frame, cyc, probe>>

WbStatIrq ==
    \E v \in IrqStatVals : WbCall(\hff41, v) /\ UNCHANGED <<frame, cyc, probe>>

WbLycIrq ==
    \E v \in IrqLycVals : WbCall(\hff45, v) /\ UNCHANGED <<frame, cyc, probe>>

NextIrq == StepIrq \/ WbLcdcIrq \/ WbStatIrq \/ WbLycIrq

SpecIrq == Init /\ [][NextIrq]_vars

\* the step about to return has switched into mode m
Enters(m) == gpu'.mode = m /\ gpu.mode # m

\* the step about to return has advanced the line onto LYC, coincidence enabled
OntoLyc == gpu'.ly # gpu.ly /\ gpu'.ly = gpu.lyc /\ gpu.lycly

\* C22: a step clears no bit of the flag byte and sets at most the V-blank
\* and LCD-status bits; it sets the LCD-status bit only if it enters OAM scan
\* with the mode-2 enable, H-blank with the mode-0 enable, V-blank with the
\* mode-1 enable, or advances the line onto LYC with coincidence enabled; the
\* entry to VRAM read sets no bit.
C22_FlagBits ==
    [][IsStep(op') =>
         /\ op'.addr \subseteq if_'
         /\ if_' \ op'.addr \subseteq {"Vblank", "LCDStat"}
         /\ raised' \subseteq {"Vblank", "LCDStat"}
         /\ "LCDStat" \in raised' =>
                \/ Enters("RdOam") /\ gpu.mode2int
                \/ Enters("HBlank") /\ gpu.mode0int
                \/ Enters("VBlank") /\ gpu.mode1int
                \/ OntoLyc
         /\ Enters("RdVram") =>
                raised' = (IF OntoLyc THEN {"LCDStat"} ELSE {})]_vars

\* a step on a flag byte holding the timer bit has entered VRAM read with
\* the OAM-scan interrupt enabled and raised nothing
C22_Witness ==
    /\ IsStep(op)
    /\ "Timer" \in op.addr
    /\ "Timer" \in if_
    /\ gpu.mode = "RdVram"
    /\ gpu.clock = 156
    /\ gpu.mode2int
    /\ raised = {}

---------------------------------------------------------------------------
(* SpecBg: the background pass under scrolling.  The host writes two rows  *)
(* of tile 0 and a byte of each map, scrolls, switches the display on with *)
(* either map and either setting of the tile-data bit, and steps.          *)

BgClocks == {252}

BgLcdcVals == {\h81, \h91, \h99}

BgScxVals == {3, 255}

BgScyVals == {5, 255}

\* rows 0 and 5 of tile 0, the first byte of map 0 and of map 1
BgVram == {<<\h8000, \h81>>, <<\h800b, \h10>>, <<\h9800, 200>>, <<\h9c00, 1>>}

StepBg ==
    \E c \in BgClocks :
        /\ gpu.ly < MaxLine
        /\ StepCall(c, {})
        /\ UNCHANGED <<frame, cyc, probe>>

WbLcdcBg ==
    \E v \in BgLcdcVals : WbCall(\hff40, v) /\ UNCHANGED <<frame, cyc, probe>>

WbScx == \E v \in BgScxVals : WbCall(\hff43, v) /\ UNCHANGED <<frame, cyc, probe>>

WbScy == \E v \in BgScyVals : WbCall(\hff42, v) /\ UNCHANGED <<frame, cyc, probe>>

WbVramBg ==
    \E w \in BgVram : WbVramCall(w[1], w[2]) /\ UNCHANGED <<frame, cyc, probe>>

NextBg == StepBg \/ WbLcdcBg \/ WbScx \/ WbScy \/ WbVramBg

SpecBg == Init /\ [][NextBg]_vars

\* the map byte the claim names for output column x of line LY
ClaimMapAddr(g, x) ==
    (IF g.bgmap THEN \h1c00 ELSE \h1800)
    + 32 * (((g.ly + g.scy) % 256) \div 8) + (((x + g.scx) % 256) \div 8)

\* the colour index of the claim at column x: the pixel of the tile that the
\* map byte selects in the active addressing mode, t standing for the way
\* the byte is resolved to a tile
ClaimColour(g, x, t(_, _)) ==
    DecodeTile(g, t(g.tiledata, Get(g.vrambank, ClaimMapAddr(g, x))))
        [(g.ly + g.scy) % 8][(x + g.scx) % 8]

\* line LY of the frame buffer and the priority buffer hold, at every
\* column, the colour of the claim for the resolution t, and the map byte
\* lies in the selected map
BackgroundLine(g, t(_, _)) ==
    \A x \in 0..(WIDTH - 1) :
        /\ ClaimMapAddr(g, x) - bgbase(g) \in 0..1023
        /\ BgPixelIs(g, x, ClaimColour(g, x, t))
        /\ Scanline(g)[x] = ClaimColour(g, x, t)

RowBytes(ly) == (4 * 160 * ly)..(4 * 160 * ly + 639)

\* the frame buffer holds the four bytes of the palette entry at the byte
\* offset 4*(160*LY + x) of pixel (x, LY)
PixelHolds(g, x, entry) ==
    \A k \in 0..3 : Get(g.image_data, 4 * (160 * g.ly + x) + k) = entry[k]

\* after a background pass every pixel of the line holds the entry of the
\* compiled background palette for the colour index recorded at its column
BgEntries ==
    (Rendered /\ gpu.bgon /\ ~gpu.objon /\ gpu.ly < HEIGHT) =>
        \A x \in 0..(WIDTH - 1) : PixelHolds(gpu, x, gpu.pal.bg[Scanline(gpu)[x]])

\* a step that renders line LY leaves every byte outside row LY as it was
RowOnly ==
    (IsStep(op') /\ render_at' # <<>>) =>
        \A a \in (DOMAIN gpu.image_data \cup DOMAIN gpu'.image_data)
                     \ RowBytes(gpu'.ly) :
            Get(gpu'.image_data, a) = Get(gpu.image_data, a)

\* C24: every pixel written by a pass stores the four bytes (R, G, B, A) of
\* the resolved compiled-palette entry, alpha included, at byte offset
\* 4*(160*LY + x), and a render of line LY changes no byte of the frame
\* buffer outside the 640 bytes of row LY.
C24_PixelBytes == []BgEntries /\ [][RowOnly]_vars

=============================================================================
